---- MODULE Spec2Model ----
(***************************************************************************)
(* QOption<Type> (src/src/qoption.h): an optional-value container made of  *)
(* a discriminant `available` and a raw storage `value` read through       *)
(* __ptr_v().                                                              *)
(*                                                                         *)
(* The model is the instantiation with a one-byte Type (0 .. MaxVal):      *)
(* value_storage is std::aligned_storage<...> itself, not its ::type, so   *)
(* the storage member is one byte wide and only a one-byte Type fits in it.*)
(* A program is a sequence of calls on a finite set of container objects.  *)
(* `last` is the record of the latest call as its caller observes it: what *)
(* the container held when the call began, the outcome, the result and the *)
(* callbacks that ran.                                                     *)
(***************************************************************************)
EXTENDS Integers, FiniteSets

\* Number of container objects a program declares.
NumObj == 2
\* Largest value of Type; Type is 0 .. MaxVal.
MaxVal == 2

Objs == 1 .. NumObj
\* The containers of a program that declares one more.
AllObjs == 1 .. (NumObj + 1)
Type == 0 .. MaxVal
\* `other` of a call that has no second container.
NoObj == 0

VARIABLES live, available, value, last

vars == <<live, available, value, last>>

----------------------------------------------------------------------------
(* Private members and the two state queries.                              *)

\* *__ptr_v(): the storage read as a Type.
ptr_v(o) == value[o]

\* isNone with the body of isSome: return available;
isNone_as_isSome(o) == available[o]

\* bool isNone() const { return !available; }
isNone(o) == ~available[o]

\* bool isSome() const { return available; }
isSome(o) == available[o]

\* What a container holds, as a set: {} when None, {v} when Some(v).
Content(o) == IF live[o] /\ isSome(o) THEN {ptr_v(o)} ELSE {}

----------------------------------------------------------------------------
(* Caller-supplied callbacks.  A callback either returns or throws; the    *)
(* callback given to if_some may also consume the container it is invoked  *)
(* from (it captures the container and calls unwrap() on it).              *)

\* none_callable: () -> Type
NoneFns == [kind : {"ret"}, val : Type] \cup {[kind |-> "throw", val |-> 0]}

\* some_callable of match: Type -> Res, here v |-> (v + k) mod (MaxVal + 1)
SomeFns == [kind : {"ret"}, k : Type] \cup {[kind |-> "throw", k |-> 0]}

\* some_callable of if_some: Type & -> void
VisitFns == {"ret", "throw", "consume"}

\* none_callable of if_none: () -> void
VoidFns == {"ret", "throw"}

ApplySome(f, v) == (v + f.k) % (MaxVal + 1)

----------------------------------------------------------------------------
(* The record of a call.                                                   *)

\* readFlag: the values `available` had, in the object read, at the points
\* where the call read a storage; someSaw: the isSome() of the container at
\* the point where the call invoked the callback that receives the value.
Call(op, o, other) ==
    [op        |-> op,
     self      |-> o,
     other     |-> other,
     had       |-> Content(o),
     hadOther  |-> IF other \in AllObjs THEN Content(other) ELSE {},
     arg       |-> {},
     outcome   |-> "ok",
     result    |-> {},
     truth     |-> {},
     chain     |-> NoObj,
     cb        |-> "",
     readFlag  |-> {},
     someSaw   |-> {},
     someCalls |-> 0,
     noneCalls |-> 0,
     someArg   |-> {},
     someRet   |-> {},
     noneRet   |-> {}]

Init ==
    /\ live = [o \in AllObjs |-> FALSE]
    /\ available = [o \in AllObjs |-> FALSE]
    /\ value = [o \in AllObjs |-> 0]
    /\ last = [op |-> "start", self |-> NoObj, other |-> NoObj, had |-> {},
               hadOther |-> {}, arg |-> {}, outcome |-> "ok", result |-> {},
               truth |-> {}, chain |-> NoObj, cb |-> "",
               readFlag |-> {}, someSaw |-> {},
               someCalls |-> 0, noneCalls |-> 0, someArg |-> {},
               someRet |-> {}, noneRet |-> {}]

----------------------------------------------------------------------------
(* Construction and destruction.                                           *)

\* QOption() noexcept : available(false) {}   The storage is not written: it
\* holds whatever the memory held.
QOption_default(d) ==
    /\ ~live[d]
    /\ \E g \in Type :
         value' = [value EXCEPT ![d] = g]
    /\ live' = [live EXCEPT ![d] = TRUE]
    /\ available' = [available EXCEPT ![d] = FALSE]
    /\ last' = Call("QOption()", d, NoObj)

\* QOption(const Type & t) noexcept { *__ptr_v() = t; available = true; }
QOption_value(d, t) ==
    /\ ~live[d]
    /\ live' = [live EXCEPT ![d] = TRUE]
    /\ value' = [value EXCEPT ![d] = t]
    /\ available' = [available EXCEPT ![d] = TRUE]
    /\ last' = [Call("QOption(const Type&)", d, NoObj) EXCEPT !.arg = {t}]

\* QOption(Type && t) noexcept { std::swap(*__ptr_v(), t); available = true; }
QOption_rvalue(d, t) ==
    /\ ~live[d]
    /\ live' = [live EXCEPT ![d] = TRUE]
    /\ value' = [value EXCEPT ![d] = t]
    /\ available' = [available EXCEPT ![d] = TRUE]
    /\ last' = [Call("QOption(Type&&)", d, NoObj) EXCEPT !.arg = {t}]

\* static QOption None() { return QOption(); }   d is the object the caller
\* initialises with the result.
None(d) ==
    /\ ~live[d]
    /\ \E g \in Type :
         value' = [value EXCEPT ![d] = g]
    /\ live' = [live EXCEPT ![d] = TRUE]
    /\ available' = [available EXCEPT ![d] = FALSE]
    /\ last' = Call("None", d, NoObj)

\* static QOption Some(const Type & val) { return QOption(val); }
Some_copy(d, val) ==
    /\ ~live[d]
    /\ live' = [live EXCEPT ![d] = TRUE]
    /\ value' = [value EXCEPT ![d] = val]
    /\ available' = [available EXCEPT ![d] = TRUE]
    /\ last' = [Call("Some(const Type&)", d, NoObj) EXCEPT !.arg = {val}]

\* static QOption Some(Type && val) { return QOption(std::forward<Type>(val)); }
Some_move(d, val) ==
    /\ ~live[d]
    /\ live' = [live EXCEPT ![d] = TRUE]
    /\ value' = [value EXCEPT ![d] = val]
    /\ available' = [available EXCEPT ![d] = TRUE]
    /\ last' = [Call("Some(Type&&)", d, NoObj) EXCEPT !.arg = {val}]

\* The implicit destructor: the object's lifetime ends at scope exit.
Destroy(o) ==
    /\ live[o]
    /\ live' = [live EXCEPT ![o] = FALSE]
    /\ available' = [available EXCEPT ![o] = FALSE]
    /\ value' = [value EXCEPT ![o] = 0]
    /\ last' = Call("~QOption()", o, NoObj)

----------------------------------------------------------------------------
(* Transfer construction and assignment.                                   *)

\* QOption(QOption && o) noexcept: lines 39-46.
QOption_move(d, o) ==
    /\ ~live[d]
    /\ live[o]
    /\ live' = [live EXCEPT ![d] = TRUE]
    /\ IF isSome(o)
         THEN \* *__ptr_v() = o.unwrap(); available = true;
              /\ value' = [value EXCEPT ![d] = ptr_v(o)]
              /\ available' = [available EXCEPT ![o] = FALSE, ![d] = TRUE]
         ELSE \* available = false; the storage is not written
              /\ \E g \in Type : value' = [value EXCEPT ![d] = g]
              /\ available' = [available EXCEPT ![d] = FALSE]
    /\ last' = [Call("QOption(QOption&&)", d, o) EXCEPT
                  !.readFlag = IF isSome(o) THEN {FALSE} ELSE {}]

\* A copy in place of the transfer: the source is read without o.unwrap().
QOption_lref_copies(d, o) ==
    /\ ~live[d]
    /\ live[o]
    /\ live' = [live EXCEPT ![d] = TRUE]
    /\ IF isSome(o)
         THEN /\ value' = [value EXCEPT ![d] = ptr_v(o)]
              /\ available' = [available EXCEPT ![d] = TRUE]
         ELSE /\ \E g \in Type : value' = [value EXCEPT ![d] = g]
              /\ available' = [available EXCEPT ![d] = FALSE]
    /\ last' = Call("QOption(QOption&)", d, o)

\* QOption(QOption & o) noexcept: lines 48-55.
QOption_lref(d, o) ==
    /\ ~live[d]
    /\ live[o]
    /\ live' = [live EXCEPT ![d] = TRUE]
    /\ IF isSome(o)
         THEN /\ value' = [value EXCEPT ![d] = ptr_v(o)]
              /\ available' = [available EXCEPT ![o] = FALSE, ![d] = TRUE]
         ELSE /\ \E g \in Type : value' = [value EXCEPT ![d] = g]
              /\ available' = [available EXCEPT ![d] = FALSE]
    /\ last' = [Call("QOption(QOption&)", d, o) EXCEPT
                  !.readFlag = IF isSome(o) THEN {FALSE} ELSE {}]

\* operator=(QOption &&) with the two statements swapped:
\* available = true; *__ptr_v() = o.unwrap();
assign_move_flag_first(d, o) ==
    /\ live[d]
    /\ live[o]
    /\ IF isSome(o)
         THEN /\ value' = [value EXCEPT ![d] = ptr_v(o)]
              /\ available' = [available EXCEPT ![d] = TRUE, ![o] = FALSE]
         ELSE /\ available' = [available EXCEPT ![d] = FALSE]
              /\ UNCHANGED value
    /\ last' = [Call("operator=(QOption&&)", d, o) EXCEPT
                  !.chain = d,
                  !.readFlag = IF isSome(o) THEN {FALSE} ELSE {}]
    /\ UNCHANGED live

\* QOption & operator=(QOption && o) noexcept: lines 77-86.  d = std::move(o);
\* o may be d itself.
assign_move(d, o) ==
    /\ live[d]
    /\ live[o]
    /\ IF isSome(o)
         THEN \* *__ptr_v() = o.unwrap(); available = true;
              /\ value' = [value EXCEPT ![d] = ptr_v(o)]
              /\ available' = [available EXCEPT ![o] = FALSE, ![d] = TRUE]
         ELSE /\ available' = [available EXCEPT ![d] = FALSE]
              /\ UNCHANGED value
    /\ last' = [Call("operator=(QOption&&)", d, o) EXCEPT
                  !.chain = d,
                  !.readFlag = IF isSome(o) THEN {FALSE} ELSE {}]
    /\ UNCHANGED live

\* value = o.value; (line 91) assigns the value_storage member, an object of
\* the empty class std::aligned_storage<sizeof(Type), alignof(Type)>.  Its
\* one byte is padding, which a trivial copy may or may not carry over: the
\* destination storage keeps its own byte or receives the source's.
StorageAssign(d, o) == {value[d], value[o]}

\* QOption & operator=(QOption & o) noexcept: lines 88-98.  d = o; o may be d.
assign_lref(d, o) ==
    /\ live[d]
    /\ live[o]
    /\ IF isSome(o)
         THEN \* o.available = false; value = o.value; available = true;
              /\ \E b \in StorageAssign(d, o) :
                   value' = [value EXCEPT ![d] = b]
              /\ available' = [available EXCEPT ![o] = FALSE, ![d] = TRUE]
         ELSE /\ available' = [available EXCEPT ![d] = FALSE]
              /\ UNCHANGED value
    /\ last' = [Call("operator=(QOption&)", d, o) EXCEPT
                  !.chain = d,
                  !.readFlag = IF isSome(o) THEN {FALSE} ELSE {}]
    /\ UNCHANGED live

----------------------------------------------------------------------------
(* Inspection.                                                             *)

call_isNone(o) ==
    /\ live[o]
    /\ last' = [Call("isNone", o, NoObj) EXCEPT !.truth = {isNone(o)}]
    /\ UNCHANGED <<live, available, value>>

call_isSome(o) ==
    /\ live[o]
    /\ last' = [Call("isSome", o, NoObj) EXCEPT !.truth = {isSome(o)}]
    /\ UNCHANGED <<live, available, value>>

\* Equality without the isSome() guard: the storages are compared in any state.
eq_unguarded(a, b) ==
    /\ isSome(a) = isSome(b)
    /\ ptr_v(a) = ptr_v(b)

\* isSome() == o.isSome() && ((isSome() && *__ptr_v() == *o.__ptr_v()) || isNone())
eq(a, b) ==
    /\ isSome(a) = isSome(b)
    /\ \/ (isSome(a) /\ ptr_v(a) = ptr_v(b))
       \/ isNone(a)

\* bool operator==(const QOption & o): lines 73-75.
operator_eq(a, b) ==
    /\ live[a]
    /\ live[b]
    /\ last' = [Call("operator==", a, b) EXCEPT
                  !.truth = {eq(a, b)},
                  !.readFlag = IF isSome(a) /\ isSome(b) THEN {available[a], available[b]} ELSE {}]
    /\ UNCHANGED <<live, available, value>>

----------------------------------------------------------------------------
(* Conditional combinators.                                                *)

\* if_some written like match: available = false before fn runs.
if_some_consumes(o, fn) ==
    /\ live[o]
    /\ IF isSome(o)
         THEN /\ available' = [available EXCEPT ![o] = FALSE]
              /\ last' = [Call("if_some", o, NoObj) EXCEPT
                            !.cb = fn,
                            !.someCalls = 1,
                            !.someArg = {ptr_v(o)},
                            !.outcome = IF fn = "throw" THEN "throw_cb" ELSE "ok",
                            !.chain = IF fn = "throw" THEN NoObj ELSE o]
         ELSE /\ UNCHANGED available
              /\ last' = [Call("if_some", o, NoObj) EXCEPT
                            !.cb = fn, !.chain = o]
    /\ UNCHANGED <<live, value>>

\* QOption & if_some(some_callable && fn): lines 122-127.
if_some(o, fn) ==
    /\ live[o]
    /\ IF isSome(o)
         THEN \* fn(*__ptr_v());
              /\ available' = IF fn = "consume"
                                THEN [available EXCEPT ![o] = FALSE]
                                ELSE available
              /\ last' = [Call("if_some", o, NoObj) EXCEPT
                            !.cb = fn,
                            !.someCalls = 1,
                            !.someArg = {ptr_v(o)},
                            !.readFlag = {available[o]},
                            !.someSaw = {available[o]},
                            !.outcome = IF fn = "throw" THEN "throw_cb" ELSE "ok",
                            !.chain = IF fn = "throw" THEN NoObj ELSE o]
         ELSE /\ UNCHANGED available
              /\ last' = [Call("if_some", o, NoObj) EXCEPT
                            !.cb = fn, !.chain = o]
    /\ UNCHANGED <<live, value>>

\* QOption & if_none(none_callable && fn): lines 130-135.
if_none(o, fn) ==
    /\ live[o]
    /\ IF isNone(o)
         THEN \* fn();
              last' = [Call("if_none", o, NoObj) EXCEPT
                         !.cb = fn,
                         !.noneCalls = 1,
                         !.outcome = IF fn = "throw" THEN "throw_cb" ELSE "ok",
                         !.chain = IF fn = "throw" THEN NoObj ELSE o]
         ELSE last' = [Call("if_none", o, NoObj) EXCEPT !.cb = fn, !.chain = o]
    /\ UNCHANGED <<live, available, value>>

----------------------------------------------------------------------------
(* Consuming operations.                                                   *)

\* unwrap without available = false: the value is handed out and kept.
unwrap_keeps(o) ==
    /\ live[o]
    /\ IF isNone(o)
         THEN /\ UNCHANGED available
              /\ last' = [Call("unwrap", o, NoObj) EXCEPT !.outcome = "throw_empty"]
         ELSE /\ UNCHANGED available
              /\ last' = [Call("unwrap", o, NoObj) EXCEPT !.result = {ptr_v(o)}]
    /\ UNCHANGED <<live, value>>

\* Type unwrap(): lines 138-145.
unwrap(o) ==
    /\ live[o]
    /\ IF isNone(o)
         THEN \* throw E("Option is None value");
              /\ UNCHANGED available
              /\ last' = [Call("unwrap", o, NoObj) EXCEPT !.outcome = "throw_empty"]
         ELSE \* available = false; return std::move(*__ptr_v());
              /\ available' = [available EXCEPT ![o] = FALSE]
              /\ last' = [Call("unwrap", o, NoObj) EXCEPT
                            !.result = {ptr_v(o)},
                            !.readFlag = {available'[o]}]
    /\ UNCHANGED <<live, value>>

\* expect without the isNone() check: the storage is handed out in any state.
expect_unchecked(o) ==
    /\ live[o]
    /\ available' = [available EXCEPT ![o] = FALSE]
    /\ last' = [Call("expect", o, NoObj) EXCEPT !.result = {ptr_v(o)}]
    /\ UNCHANGED <<live, value>>

\* Type expect(const char * text): lines 149-156.
expect(o) ==
    /\ live[o]
    /\ IF isNone(o)
         THEN \* throw E(text);
              /\ UNCHANGED available
              /\ last' = [Call("expect", o, NoObj) EXCEPT !.outcome = "throw_empty"]
         ELSE /\ available' = [available EXCEPT ![o] = FALSE]
              /\ last' = [Call("expect", o, NoObj) EXCEPT
                            !.result = {ptr_v(o)},
                            !.readFlag = {available'[o]}]
    /\ UNCHANGED <<live, value>>

\* unwrap_or without the isNone() check: none_fn() always runs and overwrites.
unwrap_or_eager(o, none_fn) ==
    /\ live[o]
    /\ IF none_fn.kind = "throw"
         THEN /\ UNCHANGED <<available, value>>
              /\ last' = [Call("unwrap_or", o, NoObj) EXCEPT
                            !.noneCalls = 1, !.outcome = "throw_cb"]
         ELSE /\ value' = [value EXCEPT ![o] = none_fn.val]
              /\ available' = [available EXCEPT ![o] = FALSE]
              /\ last' = [Call("unwrap_or", o, NoObj) EXCEPT
                            !.noneCalls = 1,
                            !.noneRet = {none_fn.val},
                            !.result = {value'[o]}]
    /\ UNCHANGED live

\* Type unwrap_or(none_callable && none_fn): lines 160-167.
unwrap_or(o, none_fn) ==
    /\ live[o]
    /\ IF isNone(o)
         THEN IF none_fn.kind = "throw"
                THEN \* none_fn() throws before the storage is assigned
                     /\ UNCHANGED <<available, value>>
                     /\ last' = [Call("unwrap_or", o, NoObj) EXCEPT
                                   !.noneCalls = 1, !.outcome = "throw_cb"]
                ELSE \* *__ptr_v() = none_fn(); available = false; return ...
                     /\ value' = [value EXCEPT ![o] = none_fn.val]
                     /\ available' = [available EXCEPT ![o] = FALSE]
                     /\ last' = [Call("unwrap_or", o, NoObj) EXCEPT
                                   !.noneCalls = 1,
                                   !.noneRet = {none_fn.val},
                                   !.result = {value'[o]},
                                   !.readFlag = {available'[o]}]
         ELSE /\ available' = [available EXCEPT ![o] = FALSE]
              /\ UNCHANGED value
              /\ last' = [Call("unwrap_or", o, NoObj) EXCEPT
                            !.result = {ptr_v(o)},
                            !.readFlag = {available'[o]}]
    /\ UNCHANGED live

\* match that clears the flag after some_fn has returned:
\* Res r = some_fn(std::move(*__ptr_v())); available = false; return r;
match_clears_after(o, some_fn, none_fn) ==
    /\ live[o]
    /\ IF isNone(o)
         THEN /\ UNCHANGED available
              /\ last' = IF none_fn.kind = "throw"
                           THEN [Call("match", o, NoObj) EXCEPT
                                   !.noneCalls = 1, !.outcome = "throw_cb"]
                           ELSE [Call("match", o, NoObj) EXCEPT
                                   !.noneCalls = 1,
                                   !.noneRet = {none_fn.val},
                                   !.result = {none_fn.val}]
         ELSE IF some_fn.kind = "throw"
                THEN /\ UNCHANGED available
                     /\ last' = [Call("match", o, NoObj) EXCEPT
                                   !.someCalls = 1,
                                   !.someArg = {ptr_v(o)},
                                   !.readFlag = {available[o]},
                                   !.someSaw = {available[o]},
                                   !.outcome = "throw_cb"]
                ELSE /\ available' = [available EXCEPT ![o] = FALSE]
                     /\ last' = [Call("match", o, NoObj) EXCEPT
                                   !.someCalls = 1,
                                   !.someArg = {ptr_v(o)},
                                   !.readFlag = {available[o]},
                                   !.someSaw = {available[o]},
                                   !.someRet = {ApplySome(some_fn, ptr_v(o))},
                                   !.result = {ApplySome(some_fn, ptr_v(o))}]
    /\ UNCHANGED <<live, value>>

\* match with the test inverted: if(isSome()) return none_fn();
match_inverted(o, some_fn, none_fn) ==
    /\ live[o]
    /\ IF isSome(o)
         THEN /\ UNCHANGED available
              /\ last' = IF none_fn.kind = "throw"
                           THEN [Call("match", o, NoObj) EXCEPT
                                   !.noneCalls = 1, !.outcome = "throw_cb"]
                           ELSE [Call("match", o, NoObj) EXCEPT
                                   !.noneCalls = 1,
                                   !.noneRet = {none_fn.val},
                                   !.result = {none_fn.val}]
         ELSE /\ available' = [available EXCEPT ![o] = FALSE]
              /\ last' = IF some_fn.kind = "throw"
                           THEN [Call("match", o, NoObj) EXCEPT
                                   !.someCalls = 1,
                                   !.someArg = {ptr_v(o)},
                                   !.outcome = "throw_cb"]
                           ELSE [Call("match", o, NoObj) EXCEPT
                                   !.someCalls = 1,
                                   !.someArg = {ptr_v(o)},
                                   !.someRet = {ApplySome(some_fn, ptr_v(o))},
                                   !.result = {ApplySome(some_fn, ptr_v(o))}]
    /\ UNCHANGED <<live, value>>

\* Res match(some_callable && some_fn, none_callable && none_fn): lines 174-181.
match(o, some_fn, none_fn) ==
    /\ live[o]
    /\ IF isNone(o)
         THEN \* return none_fn();
              /\ UNCHANGED available
              /\ last' = IF none_fn.kind = "throw"
                           THEN [Call("match", o, NoObj) EXCEPT
                                   !.noneCalls = 1, !.outcome = "throw_cb"]
                           ELSE [Call("match", o, NoObj) EXCEPT
                                   !.noneCalls = 1,
                                   !.noneRet = {none_fn.val},
                                   !.result = {none_fn.val}]
         ELSE \* available = false; return some_fn(std::move(*__ptr_v()));
              /\ available' = [available EXCEPT ![o] = FALSE]
              /\ last' = IF some_fn.kind = "throw"
                           THEN [Call("match", o, NoObj) EXCEPT
                                   !.someCalls = 1,
                                   !.someArg = {ptr_v(o)},
                                   !.readFlag = {available'[o]},
                                   !.someSaw = {available'[o]},
                                   !.outcome = "throw_cb"]
                           ELSE [Call("match", o, NoObj) EXCEPT
                                   !.someCalls = 1,
                                   !.someArg = {ptr_v(o)},
                                   !.readFlag = {available'[o]},
                                   !.someSaw = {available'[o]},
                                   !.someRet = {ApplySome(some_fn, ptr_v(o))},
                                   !.result = {ApplySome(some_fn, ptr_v(o))}]
    /\ UNCHANGED <<live, value>>

\* unwrap_def that fails on None like unwrap instead of substituting.
unwrap_def_copy_throws(o, def_value) ==
    /\ live[o]
    /\ IF isNone(o)
         THEN /\ UNCHANGED <<available, value>>
              /\ last' = [Call("unwrap_def(const Type&)", o, NoObj) EXCEPT
                            !.arg = {def_value}, !.outcome = "throw_empty"]
         ELSE /\ UNCHANGED value
              /\ available' = [available EXCEPT ![o] = FALSE]
              /\ last' = [Call("unwrap_def(const Type&)", o, NoObj) EXCEPT
                            !.arg = {def_value}, !.result = {ptr_v(o)}]
    /\ UNCHANGED live

\* unwrap_def without the isNone() test: def_value always overwrites.
unwrap_def_copy_always(o, def_value) ==
    /\ live[o]
    /\ value' = [value EXCEPT ![o] = def_value]
    /\ available' = [available EXCEPT ![o] = FALSE]
    /\ last' = [Call("unwrap_def(const Type&)", o, NoObj) EXCEPT
                  !.arg = {def_value}, !.result = {value'[o]}]
    /\ UNCHANGED live

\* Type unwrap_def(const Type & def_value): lines 184-191.
unwrap_def_copy(o, def_value) ==
    /\ live[o]
    /\ value' = IF isNone(o) THEN [value EXCEPT ![o] = def_value] ELSE value
    /\ available' = [available EXCEPT ![o] = FALSE]
    /\ last' = [Call("unwrap_def(const Type&)", o, NoObj) EXCEPT
                  !.arg = {def_value}, !.result = {value'[o]},
                  !.readFlag = {available'[o]}]
    /\ UNCHANGED live

\* unwrap_def with available = false only on the substitute path.
unwrap_def_move_keeps(o, def_value) ==
    /\ live[o]
    /\ value' = IF isNone(o) THEN [value EXCEPT ![o] = def_value] ELSE value
    /\ UNCHANGED available
    /\ last' = [Call("unwrap_def(Type&&)", o, NoObj) EXCEPT
                  !.arg = {def_value}, !.result = {value'[o]}]
    /\ UNCHANGED live

\* Type unwrap_def(Type && def_value): lines 195-202.
unwrap_def_move(o, def_value) ==
    /\ live[o]
    /\ value' = IF isNone(o) THEN [value EXCEPT ![o] = def_value] ELSE value
    /\ available' = [available EXCEPT ![o] = FALSE]
    /\ last' = [Call("unwrap_def(Type&&)", o, NoObj) EXCEPT
                  !.arg = {def_value}, !.result = {value'[o]},
                  !.readFlag = {available'[o]}]
    /\ UNCHANGED live

----------------------------------------------------------------------------
Next ==
    \/ \E d \in Objs : QOption_default(d)
    \/ \E d \in Objs, t \in Type : QOption_value(d, t)
    \/ \E d \in Objs, t \in Type : QOption_rvalue(d, t)
    \/ \E d \in Objs : None(d)
    \/ \E d \in Objs, v \in Type : Some_copy(d, v)
    \/ \E d \in Objs, v \in Type : Some_move(d, v)
    \/ \E o \in Objs : Destroy(o)
    \/ \E d, o \in Objs : QOption_move(d, o)
    \/ \E d, o \in Objs : QOption_lref(d, o)
    \/ \E d, o \in Objs : assign_move(d, o)
    \/ \E d, o \in Objs : assign_lref(d, o)
    \/ \E o \in Objs : call_isNone(o)
    \/ \E o \in Objs : call_isSome(o)
    \/ \E a, b \in Objs : operator_eq(a, b)
    \/ \E o \in Objs, fn \in VisitFns : if_some(o, fn)
    \/ \E o \in Objs, fn \in VoidFns : if_none(o, fn)
    \/ \E o \in Objs : unwrap(o)
    \/ \E o \in Objs : expect(o)
    \/ \E o \in Objs, fn \in NoneFns : unwrap_or(o, fn)
    \/ \E o \in Objs, sf \in SomeFns, nf \in NoneFns : match(o, sf, nf)
    \/ \E o \in Objs, v \in Type : unwrap_def_copy(o, v)
    \/ \E o \in Objs, v \in Type : unwrap_def_move(o, v)

Spec == Init /\ [][Next]_vars

\* Programs that only construct, transfer, unwrap and destroy containers,
\* over one more container than Next.
NextOwn ==
    \/ \E d \in AllObjs : QOption_default(d)
    \/ \E d \in AllObjs, t \in Type : QOption_value(d, t)
    \/ \E o \in AllObjs : Destroy(o)
    \/ \E d, o \in AllObjs : QOption_move(d, o)
    \/ \E d, o \in AllObjs : QOption_lref(d, o)
    \/ \E d, o \in AllObjs : assign_move(d, o)
    \/ \E d, o \in AllObjs : assign_lref(d, o)
    \/ \E o \in AllObjs : unwrap(o)

SpecOwn == Init /\ [][NextOwn]_vars

----------------------------------------------------------------------------
(* Names of the calls, as `last.op` records them.                          *)

UnwrapOps == {"unwrap", "expect"}

ConsumingOps ==
    UnwrapOps \cup {"unwrap_or", "match",
                    "unwrap_def(const Type&)", "unwrap_def(Type&&)"}

TransferCtorOps == {"QOption(QOption&&)", "QOption(QOption&)"}

AssignOps == {"operator=(QOption&&)", "operator=(QOption&)"}

ValueCtorOps == {"QOption(const Type&)", "QOption(Type&&)"}

\* Calls that take no callback.
PlainOps ==
    {"isNone", "isSome", "operator==",
     "unwrap_def(const Type&)", "unwrap_def(Type&&)"}

----------------------------------------------------------------------------
(* Properties.                                                             *)

\* C1: every consuming operation (unwrap, expect, unwrap_or, unwrap_def,
\* match) leaves the container Empty, whatever it held before and whichever
\* branch ran (also when the call ended by an exception): isNone() is true
\* and isSome() is false right after the call.
C1_ConsumingLeavesEmpty ==
    last.op \in ConsumingOps =>
        isNone(last.self) /\ ~isSome(last.self)

\* A consuming operation has run on a container that held a value.
C1_Witness ==
    /\ last.op = "unwrap_def(Type&&)"
    /\ last.had # {}
    /\ isNone(last.self)

\* C2: unwrap() and expect() on a container Occupied with v do not fail,
\* return exactly v and leave the container Empty; in particular the call
\* that directly follows the construction from v returns v.
C2_UnwrapReturnsValue ==
    /\ [](last.op \in UnwrapOps /\ last.had # {} =>
             /\ last.outcome = "ok"
             /\ last.result = last.had
             /\ isNone(last.self))
    /\ [][(/\ last.op \in ValueCtorOps
           /\ last'.op \in UnwrapOps
           /\ last'.self = last.self) =>
              (last'.outcome = "ok" /\ last'.result = last.arg)]_vars

\* unwrap() has returned the largest value of Type.
C2_Witness ==
    /\ last.op = "unwrap"
    /\ last.had = {MaxVal}
    /\ last.result = {MaxVal}

\* C3: unwrap() and expect() on an Empty container fail with the empty-value
\* error, return nothing and leave the container Empty; an unwrap()/expect()
\* that follows a consuming operation on the same container fails, and a live
\* container goes from Empty to Occupied only by an assignment into it from
\* an Occupied source.
C3_EmptyUnwrapFails ==
    /\ [](last.op \in UnwrapOps /\ last.had = {} =>
             /\ last.outcome = "throw_empty"
             /\ last.result = {}
             /\ isNone(last.self))
    /\ [][(/\ last.op \in ConsumingOps
           /\ last'.op \in UnwrapOps
           /\ last'.self = last.self) =>
              (last'.outcome = "throw_empty" /\ last'.result = {})]_vars
    /\ [][\A o \in Objs :
            (live[o] /\ live'[o] /\ isNone(o) /\ available'[o]) =>
                /\ last'.op \in AssignOps
                /\ last'.self = o
                /\ last'.hadOther # {}]_vars

\* expect() has failed on a container that a consuming operation emptied.
C3_Witness ==
    /\ last.op = "expect"
    /\ last.had = {}
    /\ last.outcome = "throw_empty"

\* C4: transfer construction, QOption(QOption&&) and QOption(QOption&): from
\* a source Occupied with v the new container is Occupied with v and the
\* source is Empty; from an Empty source both are Empty.
C4_TransferConstruction ==
    last.op \in TransferCtorOps =>
        IF last.hadOther # {}
          THEN /\ isSome(last.self)
               /\ Content(last.self) = last.hadOther
               /\ isNone(last.other)
          ELSE /\ isNone(last.self)
               /\ isNone(last.other)

\* A container has been constructed from an Occupied lvalue container.
C4_Witness ==
    /\ last.op = "QOption(QOption&)"
    /\ last.hadOther # {}
    /\ isSome(last.self)

\* C5: operator=(QOption&) transfers like operator=(QOption&&): from a
\* source Occupied with v the destination ends Occupied holding v and the
\* source Empty; from an Empty source the destination ends Empty.
C5_AssignLrefTransfers ==
    (last.op = "operator=(QOption&)" /\ last.self # last.other) =>
        IF last.hadOther # {}
          THEN /\ isSome(last.self)
               /\ Content(last.self) = last.hadOther
               /\ isNone(last.other)
          ELSE isNone(last.self)

\* The containers that hold v, and the Occupied containers.
Holders(v) == {o \in AllObjs : Content(o) = {v}}

Occupied == {o \in AllObjs : Content(o) # {}}

\* C6: single ownership: over transfer constructions and assignments a value
\* held by one container is never held by two afterwards, and no transfer
\* increases the number of Occupied containers.
C6_SingleOwnership ==
    [][last'.op \in (TransferCtorOps \cup AssignOps) =>
          /\ Cardinality(Occupied') <= Cardinality(Occupied)
          /\ \A v \in Type :
               Cardinality(Holders(v)) = 1 =>
                   Cardinality(Holders(v)') <= 1]_vars

\* C7: unwrap_or(fn): on an Empty container fn is invoked exactly once and
\* what it returns is the result; on a container Occupied with v fn is not
\* invoked and v is the result.
C7_UnwrapOr ==
    last.op = "unwrap_or" =>
        IF last.had = {}
          THEN /\ last.noneCalls = 1
               /\ last.outcome = "ok" =>
                    (last.noneRet # {} /\ last.result = last.noneRet)
          ELSE /\ last.noneCalls = 0
               /\ last.outcome = "ok"
               /\ last.result = last.had

\* unwrap_or has returned the value of an Occupied container while the
\* callback would have returned another one.
C7_Witness ==
    /\ last.op = "unwrap_or"
    /\ last.had # {}
    /\ last.noneCalls = 0
    /\ last.result = last.had

\* C8: match(some_fn, none_fn): exactly one of the two functions is invoked,
\* once, and its result is match's result; some_fn runs, on v, when the
\* container is Occupied with v, and none_fn runs when it is Empty.
C8_Match ==
    last.op = "match" =>
        /\ last.someCalls + last.noneCalls = 1
        /\ IF last.had # {}
             THEN /\ last.someCalls = 1
                  /\ last.someArg = last.had
                  /\ last.outcome = "ok" =>
                       (last.someRet # {} /\ last.result = last.someRet)
             ELSE /\ last.noneCalls = 1
                  /\ last.outcome = "ok" =>
                       (last.noneRet # {} /\ last.result = last.noneRet)

\* match has run some_fn on the value of an Occupied container.
C8_Witness ==
    /\ last.op = "match"
    /\ last.had # {}
    /\ last.someCalls = 1
    /\ last.outcome = "ok"

\* C9: the container itself fails only in unwrap()/expect(), and exactly
\* when it is Empty; every other failure is the failure of a callback that
\* the call invoked, and a call that takes no callback never fails.
C9_OnlyUnwrapFails ==
    /\ last.outcome = "throw_empty" <=>
          (last.op \in UnwrapOps /\ last.had = {})
    /\ last.outcome = "throw_cb" =>
          last.someCalls + last.noneCalls = 1
    /\ last.op \in PlainOps => last.outcome = "ok"

\* unwrap_def has run on an Empty container without failing.
C9_Witness ==
    /\ last.op = "unwrap_def(const Type&)"
    /\ last.had = {}
    /\ last.outcome = "ok"

\* C10: if_some(fn) invokes fn, on the contained value, iff the container is
\* Occupied, and if_none(fn) invokes fn iff it is Empty; both return the
\* container itself and, for a callback that does not modify the container,
\* leave its state and value as they were, so that an unwrap() that follows
\* on a container that was Occupied with v returns v.
C10_CombinatorsKeepValue ==
    /\ [](last.op = "if_some" =>
             /\ last.someCalls = (IF last.had # {} THEN 1 ELSE 0)
             /\ last.someCalls = 1 => last.someArg = last.had
             /\ last.noneCalls = 0)
    /\ [](last.op = "if_none" =>
             /\ last.noneCalls = (IF last.had = {} THEN 1 ELSE 0)
             /\ last.someCalls = 0)
    /\ [](last.op \in {"if_some", "if_none"} =>
             /\ last.outcome = "ok" => last.chain = last.self
             /\ last.cb # "consume" => Content(last.self) = last.had)
    /\ [][(/\ last.op \in {"if_some", "if_none"}
           /\ last.cb # "consume"
           /\ last.had # {}
           /\ last'.op = "unwrap"
           /\ last'.self = last.self) =>
              (last'.outcome = "ok" /\ last'.result = last.had)]_vars

\* if_some has run a callback on an Occupied container, which still holds
\* the value.
C10_Witness ==
    /\ last.op = "if_some"
    /\ last.someCalls = 1
    /\ last.cb = "ret"
    /\ Content(last.self) = last.had
    /\ last.had # {}

----------------------------------------------------------------------------
(* Properties of the combinator chain, equality, the factories, the        *)
(* storage discipline and assignment.                                      *)

\* C11: in the chain c.if_some(f).if_none(g), where if_none is called on the
\* container that if_some returned, exactly one of f and g is invoked: f if
\* c was Occupied when the chain began, g if it was Empty; for every
\* callback f, also one that consumes c.
C11_ChainRunsOneCallback ==
    [][(/\ last.op = "if_some"
        /\ last.outcome = "ok"
        /\ last'.op = "if_none"
        /\ last'.self = last.chain) =>
           /\ last.someCalls + last'.noneCalls = 1
           /\ last.someCalls = (IF last.had # {} THEN 1 ELSE 0)
           /\ last'.noneCalls = (IF last.had = {} THEN 1 ELSE 0)]_vars

\* C12: a == b is true iff both containers are Empty, or both are Occupied
\* and hold equal values, whatever bytes emptied containers still carry in
\* their storage; evaluating == changes neither operand.
C12_Equality ==
    /\ [](last.op = "operator==" =>
             last.truth = {Content(last.self) = Content(last.other)})
    /\ [][last'.op = "operator==" =>
             (live' = live /\ available' = available /\ value' = value)]_vars

\* Two Empty containers whose storages still carry different bytes have
\* compared equal.
C12_Witness ==
    /\ last.op = "operator=="
    /\ last.self # last.other
    /\ last.had = {}
    /\ last.hadOther = {}
    /\ value[last.self] # value[last.other]
    /\ last.truth = {TRUE}

UnwrapDefOps == {"unwrap_def(const Type&)", "unwrap_def(Type&&)"}

\* C13: unwrap_def(def_value), in both overloads, returns def_value when the
\* container was Empty and the contained v when it was Occupied with v, in
\* which case def_value is not the result (unless it equals v).
C13_UnwrapDef ==
    last.op \in UnwrapDefOps =>
        /\ last.outcome = "ok"
        /\ last.result = (IF last.had = {} THEN last.arg ELSE last.had)

\* unwrap_def has returned the contained value, which differs from the
\* default it was given.
C13_Witness ==
    /\ last.op = "unwrap_def(const Type&)"
    /\ last.had # {}
    /\ last.arg # last.had
    /\ last.result = last.had

SomeOps == {"Some(const Type&)", "Some(Type&&)"}

EmptyCtorOps == {"None", "QOption()"}

\* C14: a container is in exactly one of the two states: isNone() is the
\* negation of isSome() for every live container; Some(v) and the value
\* constructors yield a container with isSome() true, isNone() false, holding
\* v; None() and the default constructor yield isNone() true; isNone() and
\* isSome() report the state and change nothing.
C14_ExactlyOneState ==
    /\ [](\A o \in AllObjs : live[o] => (isNone(o) <=> ~isSome(o)))
    /\ [](last.op \in (SomeOps \cup ValueCtorOps) =>
             /\ isSome(last.self)
             /\ ~isNone(last.self)
             /\ Content(last.self) = last.arg)
    /\ [](last.op \in EmptyCtorOps =>
             (isNone(last.self) /\ ~isSome(last.self)))
    /\ [](last.op = "isNone" => last.truth = {last.had = {}})
    /\ [](last.op = "isSome" => last.truth = {last.had # {}})
    /\ [][last'.op \in {"isNone", "isSome"} =>
             (live' = live /\ available' = available /\ value' = value)]_vars

\* Some(v) has built a container holding the largest value of Type.
C14_Witness ==
    /\ last.op = "Some(const Type&)"
    /\ isSome(last.self)
    /\ ~isNone(last.self)
    /\ Content(last.self) = {MaxVal}

\* C15: the storage is only read while the discriminant says Occupied: no
\* call reads or hands out the stored value at a point where `available` is
\* false.
C15_ReadsOnlyWhileAvailable ==
    FALSE \notin last.readFlag

\* Calls that store a value into `self`, and the value they are given: the
\* argument of a value constructor or factory, the content of the source of
\* a transfer.
StoreOps == ValueCtorOps \cup SomeOps \cup TransferCtorOps \cup AssignOps

Stored(c) == IF c.op \in (ValueCtorOps \cup SomeOps) THEN c.arg ELSE c.hadOther

\* The value a call yields: the result of unwrap/expect, the argument that
\* match passes to some_fn.
Yielded(c) == IF c.op = "match" THEN c.someArg ELSE c.result

\* C16 (stores): after a construction or an assignment the container holds
\* the value it was given: v from Some(v) or from a source Occupied with v,
\* nothing from an Empty source.
C16_StoreKeepsGivenValue ==
    last.op \in StoreOps => Content(last.self) = Stored(last)

\* C16: no stale value is yielded.  Over any sequence of calls, the value
\* that unwrap/expect return or that match passes to some_fn is the value
\* most recently stored into the container by a construction or by a
\* transfer from an Occupied source: every store leaves the container
\* holding the value given, the container comes to hold a value only by a
\* store into it, and a yield hands out what the container holds.
C16_NoStaleValue ==
    /\ []C16_StoreKeepsGivenValue
    /\ [][\A o \in AllObjs :
            (Content(o)' # Content(o) /\ Content(o)' # {}) =>
                (last'.op \in StoreOps /\ last'.self = o)]_vars
    /\ [](last.op \in (UnwrapOps \cup {"match"}) /\ last.had # {} =>
             Yielded(last) = last.had)

\* C17: match on an Occupied container sets it Empty before some_fn is
\* invoked: some_fn finds isSome() false, and the container is Empty when
\* match ends, also when some_fn fails; match on an Empty container leaves
\* the flag and the storage as they were.
C17_MatchEmptiesFirst ==
    /\ [](last.op = "match" /\ last.had # {} =>
             /\ last.someSaw = {FALSE}
             /\ isNone(last.self))
    /\ [](last.op = "match" /\ last.had = {} =>
             (last.someSaw = {} /\ isNone(last.self)))
    /\ [][(last'.op = "match" /\ last'.had = {}) =>
             (live' = live /\ available' = available /\ value' = value)]_vars

\* some_fn has failed in a match on an Occupied container, which is Empty.
C17_Witness ==
    /\ last.op = "match"
    /\ last.had # {}
    /\ last.outcome = "throw_cb"
    /\ last.someSaw = {FALSE}
    /\ isNone(last.self)

\* C18: self-assignment preserves the container: after c = c through
\* operator=(QOption&) or c = std::move(c) through operator=(QOption&&) an
\* Occupied container is Occupied with the same value and an Empty one is
\* Empty, and the storage byte is unchanged.
C18_SelfAssignment ==
    /\ [](last.op \in AssignOps /\ last.self = last.other =>
             (Content(last.self) = last.had /\ last.chain = last.self))
    /\ [][(last'.op \in AssignOps /\ last'.self = last'.other) =>
             (live' = live /\ available' = available /\ value' = value)]_vars

\* An Occupied container has been move-assigned to itself and still holds
\* its value.
C18_Witness ==
    /\ last.op = "operator=(QOption&&)"
    /\ last.self = last.other
    /\ last.had # {}
    /\ Content(last.self) = last.had

====
